---- MODULE Spec2Model ----
(***************************************************************************)
(* iotracer: the strace parser and file-descriptor correlation loop of     *)
(* src/iotracer.py (parse_strace), with the lane table kept by the Action  *)
(* class, the choice of the trace source in main, and generate_svg.        *)
(*                                                                         *)
(* Text is modelled as a sequence of one-character strings, so that the    *)
(* regular expressions, the splitting, the stripping, fnmatch, int() and   *)
(* float() are computed character by character.  A time is a binary        *)
(* double of seconds, rounded as Python rounds it.                         *)
(* An optional value (Python's None) is the empty sequence, a present      *)
(* value v is <<v>>.                                                       *)
(***************************************************************************)
EXTENDS Integers, Sequences, FiniteSets, TLC

VARIABLES
    paths,           \* the glob patterns handed to parse_strace (a tuple)
    fds,             \* parse_strace's local dict: descriptor -> open entry
    syscalls,        \* parse_strace's local list of Actions (its result)
    path_to_height,  \* the class attribute Action.path_to_height
    status,          \* "main" | "running" | "returned" | "raised" (the error
                     \* left parse_strace) | "exited" | "drawn" | "raised_svg"
    consumed,        \* history: the lines of stderr the loop has taken so far
    trail,           \* history: after each consumed line, Len(syscalls) and fds
    invocation,      \* which call of parse_strace in this process (1, 2, ..)
    options,         \* main's options: strace, pid, command, keep_timestamps
    outputs          \* what main has printed and written, in order

vars == <<paths, fds, syscalls, path_to_height, status, consumed, trail, invocation,
          options, outputs>>

(***************************************************************************)
(* Bounds of the model.                                                    *)
(***************************************************************************)
MaxLines == 4
MaxStdLines == 3
MaxReuseLines == 5
MaxE2ELines == 3
MaxRunLines == 2
MaxInvocations == 2
MaxGrammarLines == 3
MaxMainLines == 2

(***************************************************************************)
(* Generic helpers.                                                        *)
(***************************************************************************)
None == <<>>
Some(v) == <<v>>

SetMax(S) == CHOOSE x \in S : \A y \in S : y <= x
SetMin(S) == CHOOSE x \in S : \A y \in S : x <= y

Range(f) == {f[x] : x \in DOMAIN f}

(***************************************************************************)
(* Characters.  A character of printable ASCII is the one-character string *)
(* itself and the tab is "\t"; every other character, and the grave accent *)
(* that a string cannot hold, is written by its code point, as in          *)
(* "U+00A0".                                                               *)
(***************************************************************************)
\* printable ASCII in the order of the code points, from 32 on
Ascii ==
    <<" ", "!", "\"", "#", "$", "%", "&", "'", "(", ")", "*", "+", ",",
      "-", ".", "/", "0", "1", "2", "3", "4", "5", "6", "7", "8", "9", ":",
      ";", "<", "=", ">", "?", "@", "A", "B", "C", "D", "E", "F", "G", "H",
      "I", "J", "K", "L", "M", "N", "O", "P", "Q", "R", "S", "T", "U", "V",
      "W", "X", "Y", "Z", "[", "\\", "]", "^", "_", "U+0060", "a", "b", "c",
      "d", "e", "f", "g", "h", "i", "j", "k", "l", "m", "n", "o", "p", "q",
      "r", "s", "t", "u", "v", "w", "x", "y", "z", "{", "|", "}", "~">>

\* the other characters str.strip() removes that splitlines() leaves inside
\* a line, each with its code point
SpaceCodes ==
    <<<<"U+001F", 31>>, <<"U+00A0", 160>>, <<"U+1680", 5760>>,
      <<"U+2000", 8192>>, <<"U+2001", 8193>>, <<"U+2002", 8194>>,
      <<"U+2003", 8195>>, <<"U+2004", 8196>>, <<"U+2005", 8197>>,
      <<"U+2006", 8198>>, <<"U+2007", 8199>>, <<"U+2008", 8200>>,
      <<"U+2009", 8201>>, <<"U+200A", 8202>>, <<"U+202F", 8239>>,
      <<"U+205F", 8287>>, <<"U+3000", 12288>>>>

\* the decimal digits of Unicode beyond ASCII (category Nd), script by
\* script: the code point of the zero, then the digits 0 to 9
DecimalDigits ==
    << <<1632, "U+0660", "U+0661", "U+0662", "U+0663", "U+0664", "U+0665", "U+0666", "U+0667", "U+0668", "U+0669">>,
       <<1776, "U+06F0", "U+06F1", "U+06F2", "U+06F3", "U+06F4", "U+06F5", "U+06F6", "U+06F7", "U+06F8", "U+06F9">>,
       <<1984, "U+07C0", "U+07C1", "U+07C2", "U+07C3", "U+07C4", "U+07C5", "U+07C6", "U+07C7", "U+07C8", "U+07C9">>,
       <<2406, "U+0966", "U+0967", "U+0968", "U+0969", "U+096A", "U+096B", "U+096C", "U+096D", "U+096E", "U+096F">>,
       <<2534, "U+09E6", "U+09E7", "U+09E8", "U+09E9", "U+09EA", "U+09EB", "U+09EC", "U+09ED", "U+09EE", "U+09EF">>,
       <<2662, "U+0A66", "U+0A67", "U+0A68", "U+0A69", "U+0A6A", "U+0A6B", "U+0A6C", "U+0A6D", "U+0A6E", "U+0A6F">>,
       <<2790, "U+0AE6", "U+0AE7", "U+0AE8", "U+0AE9", "U+0AEA", "U+0AEB", "U+0AEC", "U+0AED", "U+0AEE", "U+0AEF">>,
       <<2918, "U+0B66", "U+0B67", "U+0B68", "U+0B69", "U+0B6A", "U+0B6B", "U+0B6C", "U+0B6D", "U+0B6E", "U+0B6F">>,
       <<3046, "U+0BE6", "U+0BE7", "U+0BE8", "U+0BE9", "U+0BEA", "U+0BEB", "U+0BEC", "U+0BED", "U+0BEE", "U+0BEF">>,
       <<3174, "U+0C66", "U+0C67", "U+0C68", "U+0C69", "U+0C6A", "U+0C6B", "U+0C6C", "U+0C6D", "U+0C6E", "U+0C6F">>,
       <<3302, "U+0CE6", "U+0CE7", "U+0CE8", "U+0CE9", "U+0CEA", "U+0CEB", "U+0CEC", "U+0CED", "U+0CEE", "U+0CEF">>,
       <<3430, "U+0D66", "U+0D67", "U+0D68", "U+0D69", "U+0D6A", "U+0D6B", "U+0D6C", "U+0D6D", "U+0D6E", "U+0D6F">>,
       <<3558, "U+0DE6", "U+0DE7", "U+0DE8", "U+0DE9", "U+0DEA", "U+0DEB", "U+0DEC", "U+0DED", "U+0DEE", "U+0DEF">>,
       <<3664, "U+0E50", "U+0E51", "U+0E52", "U+0E53", "U+0E54", "U+0E55", "U+0E56", "U+0E57", "U+0E58", "U+0E59">>,
       <<3792, "U+0ED0", "U+0ED1", "U+0ED2", "U+0ED3", "U+0ED4", "U+0ED5", "U+0ED6", "U+0ED7", "U+0ED8", "U+0ED9">>,
       <<3872, "U+0F20", "U+0F21", "U+0F22", "U+0F23", "U+0F24", "U+0F25", "U+0F26", "U+0F27", "U+0F28", "U+0F29">>,
       <<4160, "U+1040", "U+1041", "U+1042", "U+1043", "U+1044", "U+1045", "U+1046", "U+1047", "U+1048", "U+1049">>,
       <<4240, "U+1090", "U+1091", "U+1092", "U+1093", "U+1094", "U+1095", "U+1096", "U+1097", "U+1098", "U+1099">>,
       <<6112, "U+17E0", "U+17E1", "U+17E2", "U+17E3", "U+17E4", "U+17E5", "U+17E6", "U+17E7", "U+17E8", "U+17E9">>,
       <<6160, "U+1810", "U+1811", "U+1812", "U+1813", "U+1814", "U+1815", "U+1816", "U+1817", "U+1818", "U+1819">>,
       <<6470, "U+1946", "U+1947", "U+1948", "U+1949", "U+194A", "U+194B", "U+194C", "U+194D", "U+194E", "U+194F">>,
       <<6608, "U+19D0", "U+19D1", "U+19D2", "U+19D3", "U+19D4", "U+19D5", "U+19D6", "U+19D7", "U+19D8", "U+19D9">>,
       <<6784, "U+1A80", "U+1A81", "U+1A82", "U+1A83", "U+1A84", "U+1A85", "U+1A86", "U+1A87", "U+1A88", "U+1A89">>,
       <<6800, "U+1A90", "U+1A91", "U+1A92", "U+1A93", "U+1A94", "U+1A95", "U+1A96", "U+1A97", "U+1A98", "U+1A99">>,
       <<6992, "U+1B50", "U+1B51", "U+1B52", "U+1B53", "U+1B54", "U+1B55", "U+1B56", "U+1B57", "U+1B58", "U+1B59">>,
       <<7088, "U+1BB0", "U+1BB1", "U+1BB2", "U+1BB3", "U+1BB4", "U+1BB5", "U+1BB6", "U+1BB7", "U+1BB8", "U+1BB9">>,
       <<7232, "U+1C40", "U+1C41", "U+1C42", "U+1C43", "U+1C44", "U+1C45", "U+1C46", "U+1C47", "U+1C48", "U+1C49">>,
       <<7248, "U+1C50", "U+1C51", "U+1C52", "U+1C53", "U+1C54", "U+1C55", "U+1C56", "U+1C57", "U+1C58", "U+1C59">>,
       <<42528, "U+A620", "U+A621", "U+A622", "U+A623", "U+A624", "U+A625", "U+A626", "U+A627", "U+A628", "U+A629">>,
       <<43216, "U+A8D0", "U+A8D1", "U+A8D2", "U+A8D3", "U+A8D4", "U+A8D5", "U+A8D6", "U+A8D7", "U+A8D8", "U+A8D9">>,
       <<43264, "U+A900", "U+A901", "U+A902", "U+A903", "U+A904", "U+A905", "U+A906", "U+A907", "U+A908", "U+A909">>,
       <<43472, "U+A9D0", "U+A9D1", "U+A9D2", "U+A9D3", "U+A9D4", "U+A9D5", "U+A9D6", "U+A9D7", "U+A9D8", "U+A9D9">>,
       <<43504, "U+A9F0", "U+A9F1", "U+A9F2", "U+A9F3", "U+A9F4", "U+A9F5", "U+A9F6", "U+A9F7", "U+A9F8", "U+A9F9">>,
       <<43600, "U+AA50", "U+AA51", "U+AA52", "U+AA53", "U+AA54", "U+AA55", "U+AA56", "U+AA57", "U+AA58", "U+AA59">>,
       <<44016, "U+ABF0", "U+ABF1", "U+ABF2", "U+ABF3", "U+ABF4", "U+ABF5", "U+ABF6", "U+ABF7", "U+ABF8", "U+ABF9">>,
       <<65296, "U+FF10", "U+FF11", "U+FF12", "U+FF13", "U+FF14", "U+FF15", "U+FF16", "U+FF17", "U+FF18", "U+FF19">>,
       <<66720, "U+104A0", "U+104A1", "U+104A2", "U+104A3", "U+104A4", "U+104A5", "U+104A6", "U+104A7", "U+104A8", "U+104A9">>,
       <<68912, "U+10D30", "U+10D31", "U+10D32", "U+10D33", "U+10D34", "U+10D35", "U+10D36", "U+10D37", "U+10D38", "U+10D39">>,
       <<69734, "U+11066", "U+11067", "U+11068", "U+11069", "U+1106A", "U+1106B", "U+1106C", "U+1106D", "U+1106E", "U+1106F">>,
       <<69872, "U+110F0", "U+110F1", "U+110F2", "U+110F3", "U+110F4", "U+110F5", "U+110F6", "U+110F7", "U+110F8", "U+110F9">>,
       <<69942, "U+11136", "U+11137", "U+11138", "U+11139", "U+1113A", "U+1113B", "U+1113C", "U+1113D", "U+1113E", "U+1113F">>,
       <<70096, "U+111D0", "U+111D1", "U+111D2", "U+111D3", "U+111D4", "U+111D5", "U+111D6", "U+111D7", "U+111D8", "U+111D9">>,
       <<70384, "U+112F0", "U+112F1", "U+112F2", "U+112F3", "U+112F4", "U+112F5", "U+112F6", "U+112F7", "U+112F8", "U+112F9">>,
       <<70736, "U+11450", "U+11451", "U+11452", "U+11453", "U+11454", "U+11455", "U+11456", "U+11457", "U+11458", "U+11459">>,
       <<70864, "U+114D0", "U+114D1", "U+114D2", "U+114D3", "U+114D4", "U+114D5", "U+114D6", "U+114D7", "U+114D8", "U+114D9">>,
       <<71248, "U+11650", "U+11651", "U+11652", "U+11653", "U+11654", "U+11655", "U+11656", "U+11657", "U+11658", "U+11659">>,
       <<71360, "U+116C0", "U+116C1", "U+116C2", "U+116C3", "U+116C4", "U+116C5", "U+116C6", "U+116C7", "U+116C8", "U+116C9">>,
       <<71472, "U+11730", "U+11731", "U+11732", "U+11733", "U+11734", "U+11735", "U+11736", "U+11737", "U+11738", "U+11739">>,
       <<71904, "U+118E0", "U+118E1", "U+118E2", "U+118E3", "U+118E4", "U+118E5", "U+118E6", "U+118E7", "U+118E8", "U+118E9">>,
       <<72016, "U+11950", "U+11951", "U+11952", "U+11953", "U+11954", "U+11955", "U+11956", "U+11957", "U+11958", "U+11959">>,
       <<72784, "U+11C50", "U+11C51", "U+11C52", "U+11C53", "U+11C54", "U+11C55", "U+11C56", "U+11C57", "U+11C58", "U+11C59">>,
       <<73040, "U+11D50", "U+11D51", "U+11D52", "U+11D53", "U+11D54", "U+11D55", "U+11D56", "U+11D57", "U+11D58", "U+11D59">>,
       <<73120, "U+11DA0", "U+11DA1", "U+11DA2", "U+11DA3", "U+11DA4", "U+11DA5", "U+11DA6", "U+11DA7", "U+11DA8", "U+11DA9">>,
       <<92768, "U+16A60", "U+16A61", "U+16A62", "U+16A63", "U+16A64", "U+16A65", "U+16A66", "U+16A67", "U+16A68", "U+16A69">>,
       <<92864, "U+16AC0", "U+16AC1", "U+16AC2", "U+16AC3", "U+16AC4", "U+16AC5", "U+16AC6", "U+16AC7", "U+16AC8", "U+16AC9">>,
       <<93008, "U+16B50", "U+16B51", "U+16B52", "U+16B53", "U+16B54", "U+16B55", "U+16B56", "U+16B57", "U+16B58", "U+16B59">>,
       <<120782, "U+1D7CE", "U+1D7CF", "U+1D7D0", "U+1D7D1", "U+1D7D2", "U+1D7D3", "U+1D7D4", "U+1D7D5", "U+1D7D6", "U+1D7D7">>,
       <<120792, "U+1D7D8", "U+1D7D9", "U+1D7DA", "U+1D7DB", "U+1D7DC", "U+1D7DD", "U+1D7DE", "U+1D7DF", "U+1D7E0", "U+1D7E1">>,
       <<120802, "U+1D7E2", "U+1D7E3", "U+1D7E4", "U+1D7E5", "U+1D7E6", "U+1D7E7", "U+1D7E8", "U+1D7E9", "U+1D7EA", "U+1D7EB">>,
       <<120812, "U+1D7EC", "U+1D7ED", "U+1D7EE", "U+1D7EF", "U+1D7F0", "U+1D7F1", "U+1D7F2", "U+1D7F3", "U+1D7F4", "U+1D7F5">>,
       <<120822, "U+1D7F6", "U+1D7F7", "U+1D7F8", "U+1D7F9", "U+1D7FA", "U+1D7FB", "U+1D7FC", "U+1D7FD", "U+1D7FE", "U+1D7FF">>,
       <<123200, "U+1E140", "U+1E141", "U+1E142", "U+1E143", "U+1E144", "U+1E145", "U+1E146", "U+1E147", "U+1E148", "U+1E149">>,
       <<123632, "U+1E2F0", "U+1E2F1", "U+1E2F2", "U+1E2F3", "U+1E2F4", "U+1E2F5", "U+1E2F6", "U+1E2F7", "U+1E2F8", "U+1E2F9">>,
       <<125264, "U+1E950", "U+1E951", "U+1E952", "U+1E953", "U+1E954", "U+1E955", "U+1E956", "U+1E957", "U+1E958", "U+1E959">>,
       <<130032, "U+1FBF0", "U+1FBF1", "U+1FBF2", "U+1FBF3", "U+1FBF4", "U+1FBF5", "U+1FBF6", "U+1FBF7", "U+1FBF8", "U+1FBF9">> >>

\* what x.strip() removes, among the characters a line can hold
Whitespace == {"\t", " "} \cup {SpaceCodes[i][1] : i \in 1..Len(SpaceCodes)}

\* what int() skips around the number: U+001F is not among it
IntWhitespace == Whitespace \ {"U+001F"}

\* ord(c)
Ord(c) ==
    IF c = "\t" THEN 9
    ELSE IF \E i \in 1..Len(Ascii) : Ascii[i] = c
    THEN 31 + (CHOOSE i \in 1..Len(Ascii) : Ascii[i] = c)
    ELSE IF \E i \in 1..Len(SpaceCodes) : SpaceCodes[i][1] = c
    THEN SpaceCodes[CHOOSE i \in 1..Len(SpaceCodes) : SpaceCodes[i][1] = c][2]
    ELSE LET r == CHOOSE q \in 1..Len(DecimalDigits) :
                      \E j \in 2..11 : DecimalDigits[q][j] = c
         IN  DecimalDigits[r][1] + (CHOOSE j \in 2..11 : DecimalDigits[r][j] = c) - 2

RECURSIVE LStrip(_, _)
LStrip(s, chars) ==
    IF Len(s) > 0 /\ s[1] \in chars THEN LStrip(Tail(s), chars) ELSE s

RECURSIVE RStrip(_, _)
RStrip(s, chars) ==
    IF Len(s) > 0 /\ s[Len(s)] \in chars
    THEN RStrip(SubSeq(s, 1, Len(s) - 1), chars)
    ELSE s

\* str.strip(): both ends, the given characters (whitespace by default).
Strip(s, chars) == RStrip(LStrip(s, chars), chars)

\* str.split(sep) for a one-character separator: "".split(",") is [""].
RECURSIVE Split(_, _)
Split(s, sep) ==
    LET hits == {i \in 1..Len(s) : s[i] = sep}
    IN  IF hits = {} THEN <<s>>
        ELSE LET i == SetMin(hits)
             IN  <<SubSeq(s, 1, i - 1)>> \o Split(SubSeq(s, i + 1, Len(s)), sep)

HexDigits == <<"0", "1", "2", "3", "4", "5", "6", "7", "8", "9",
               "a", "b", "c", "d", "e", "f">>
HexCapitals == <<"A", "B", "C", "D", "E", "F">>

IsAsciiDigit(c, base) == \E i \in 1..base : HexDigits[i] = c
IsCapital(c, base) == \E i \in 1..(base - 10) : HexCapitals[i] = c
IsUnicodeDigit(c) ==
    \E r \in 1..Len(DecimalDigits) : \E j \in 2..11 : DecimalDigits[r][j] = c

DigitValue(c) ==
    IF IsAsciiDigit(c, 16) THEN (CHOOSE i \in 1..16 : HexDigits[i] = c) - 1
    ELSE IF IsCapital(c, 16) THEN (CHOOSE i \in 1..6 : HexCapitals[i] = c) + 9
    ELSE (CHOOSE j \in 2..11 :
              \E r \in 1..Len(DecimalDigits) : DecimalDigits[r][j] = c) - 2

\* a digit of the base: an ASCII digit or letter below the base, in either
\* case, or any decimal digit of Unicode
IsDigit(c, base) == IsAsciiDigit(c, base) \/ IsCapital(c, base) \/ IsUnicodeDigit(c)

RECURSIVE DigitsValue(_, _)
DigitsValue(s, base) ==
    IF Len(s) = 0 THEN 0
    ELSE DigitsValue(SubSeq(s, 1, Len(s) - 1), base) * base + DigitValue(s[Len(s)])

\* the digits of a number without the underscores that group them
Ungrouped(v) == SelectSeq(v, LAMBDA c : c /= "_")

\* digits of the base, single underscores only between two of them
IsGrouped(v, base) ==
    /\ Len(v) > 0
    /\ IsDigit(v[1], base)
    /\ IsDigit(v[Len(v)], base)
    /\ \A i \in 1..Len(v) : v[i] = "_" \/ IsDigit(v[i], base)
    /\ \A i \in 1..(Len(v) - 1) : ~(v[i] = "_" /\ v[i + 1] = "_")

\* int(s, base): surrounding whitespace, an optional sign, for base 16 an
\* optional 0x or 0X prefix (one underscore may follow it), then digits of
\* the base with single underscores between them.  ok = FALSE is Python's
\* ValueError.
IntDigits(v, negative, base) ==
    IF IsGrouped(v, base)
    THEN [ok |-> TRUE,
          val |-> IF negative THEN 0 - DigitsValue(Ungrouped(v), base)
                  ELSE DigitsValue(Ungrouped(v), base)]
    ELSE [ok |-> FALSE, val |-> 0]

\* the text after the prefix of base 16
AfterPrefix(u) ==
    IF Len(u) >= 3 /\ u[3] = "_" THEN SubSeq(u, 4, Len(u)) ELSE SubSeq(u, 3, Len(u))

IntUnsigned(u, negative, base) ==
    IntDigits(IF base = 16 /\ Len(u) >= 2 /\ u[1] = "0" /\ u[2] \in {"x", "X"}
              THEN AfterPrefix(u) ELSE u,
              negative, base)

IntSigned(t, base) ==
    IntUnsigned(IF Len(t) > 0 /\ t[1] \in {"-", "+"} THEN Tail(t) ELSE t,
                Len(t) > 0 /\ t[1] = "-", base)

IntOf(s, base) == IntSigned(Strip(s, IntWhitespace), base)

(***************************************************************************)
(* float: a time is a binary double (IEEE 754 binary64, round to nearest,  *)
(* ties to even), the record [neg, hi, lo, exp] of value                   *)
(*     (-1)^neg * (hi * 2^28 + lo) * 2^exp                                 *)
(* whose significand hi * 2^28 + lo has exactly 53 binary digits           *)
(* (2^24 <= hi < 2^25, 0 <= lo < 2^28); zero is [FALSE, 0, 0, 0].  Equal   *)
(* doubles are equal records.  The significand is kept in two limbs of 28  *)
(* digits because the integers of TLC have 32.  Inside an                  *)
(* operation a number is the wide natural [hi, lo] = hi * 2^28 + lo of up  *)
(* to 57 digits, whose last digit is odd when digits below it were         *)
(* dropped (a sticky digit).  Subnormals, infinities and NaN are out of    *)
(* reach of the texts of a trace (float() of digits with a point) and of   *)
(* their sums and differences.                                             *)
(***************************************************************************)
\* the number of binary digits of a natural
RECURSIVE BitLength(_)
BitLength(n) ==
    IF n >= 2^16 THEN 16 + BitLength(n \div 2^16)
    ELSE IF n >= 2^8 THEN 8 + BitLength(n \div 2^8)
    ELSE IF n >= 2^4 THEN 4 + BitLength(n \div 2^4)
    ELSE IF n >= 2^2 THEN 2 + BitLength(n \div 2^2)
    ELSE IF n = 3 THEN 2 ELSE n

WideLength(x) == IF x.hi > 0 THEN 28 + BitLength(x.hi) ELSE BitLength(x.lo)

\* x * 2^t for 0 <= t <= 28
ShiftLeft(x, t) ==
    [hi |-> x.hi * 2^t + x.lo \div 2^(28 - t), lo |-> (x.lo % 2^(28 - t)) * 2^t]

\* x \div 2^d, made odd when a dropped digit was not zero
ShiftRight(x, d) ==
    LET floor == IF d >= 58 THEN [hi |-> 0, lo |-> 0]
                 ELSE IF d >= 28 THEN [hi |-> 0, lo |-> x.hi \div 2^(d - 28)]
                 ELSE [hi |-> x.hi \div 2^d,
                       lo |-> x.lo \div 2^d + (x.hi % 2^d) * 2^(28 - d)]
        lost == IF d >= 58 THEN x.hi /= 0 \/ x.lo /= 0
                ELSE IF d >= 28 THEN x.lo /= 0 \/ x.hi % 2^(d - 28) /= 0
                ELSE x.lo % 2^d /= 0
    IN  IF lost /\ floor.lo % 2 = 0 THEN [floor EXCEPT !.lo = @ + 1] ELSE floor

\* The double nearest to (-1)^neg * x * 2^e: x is brought to 56 digits (53
\* of the significand and three below them), and the three decide the
\* rounding, a tie going to the even significand.
Rounded(neg, x, e) ==
    LET len == WideLength(x)
        y == IF len > 56 THEN ShiftRight(x, len - 56)
             ELSE IF len >= 28 THEN ShiftLeft(x, 56 - len)
             ELSE ShiftLeft([hi |-> x.lo, lo |-> 0], 28 - len)
        up == y.lo % 8 > 4 \/ (y.lo % 8 = 4 /\ (y.lo \div 8) % 2 = 1)
        m == [hi |-> y.hi \div 8, lo |-> y.lo \div 8 + (y.hi % 8) * 2^25]
        r == IF ~up THEN m
             ELSE IF m.lo + 1 < 2^28 THEN [m EXCEPT !.lo = @ + 1]
             ELSE [hi |-> m.hi + 1, lo |-> 0]
    IN  IF len = 0 THEN [neg |-> FALSE, hi |-> 0, lo |-> 0, exp |-> 0]
        ELSE IF r.hi = 2^25
        THEN [neg |-> neg, hi |-> 2^24, lo |-> 0, exp |-> e + len - 52]
        ELSE [neg |-> neg, hi |-> r.hi, lo |-> r.lo, exp |-> e + len - 53]

\* The double nearest to (x + r / d) * 2^e, for 0 <= r < d: the long
\* division of r by d gives x its next binary digits, as many at a time as
\* the integers hold, until x has 56 or the remainder is zero.
RECURSIVE Quotient(_, _, _, _)
Quotient(x, r, d, e) ==
    LET room == 56 - WideLength(x)
        most == 31 - BitLength(d)
        t == IF most < room THEN most ELSE room
    IN  IF r = 0 THEN Rounded(FALSE, x, e)
        ELSE IF room <= 0 THEN Rounded(FALSE, [x EXCEPT !.lo = @ + 1 - (@ % 2)], e)
        ELSE Quotient([ShiftLeft(x, t) EXCEPT !.lo = @ + (r * 2^t) \div d],
                      (r * 2^t) % d, d, e - t)

\* the double nearest to the decimal num / 10^exp, for 0 <= num < 2^31 and
\* exp <= 9 (what the 32 digits of an integer hold)
Float(num, exp) ==
    Quotient([hi |-> (num \div 10^exp) \div 2^28, lo |-> (num \div 10^exp) % 2^28],
             num % 10^exp, 10^exp, 0)

\* the double of a number of milliseconds, as float() reads it from s.mmm
Ms(t) == Float(t, 3)

\* |x| < |y|
MagnitudeLess(x, y) ==
    IF x.hi = 0 \/ y.hi = 0 THEN x.hi < y.hi
    ELSE IF x.exp /= y.exp THEN x.exp < y.exp
    ELSE IF x.hi /= y.hi THEN x.hi < y.hi
    ELSE x.lo < y.lo

\* x + y: the significands get three more digits, the smaller number is
\* shifted to the exponent of the larger, and the exact sum or difference
\* (to a sticky digit) is rounded.
FloatAdd(x, y) ==
    IF x.hi = 0 THEN y
    ELSE IF y.hi = 0 THEN x
    ELSE LET big == IF MagnitudeLess(x, y) THEN y ELSE x
             small == IF MagnitudeLess(x, y) THEN x ELSE y
             a == [hi |-> big.hi * 8 + big.lo \div 2^25, lo |-> (big.lo % 2^25) * 8]
             b == ShiftRight([hi |-> small.hi * 8 + small.lo \div 2^25,
                              lo |-> (small.lo % 2^25) * 8], big.exp - small.exp)
             carry == IF a.lo + b.lo >= 2^28 THEN 1 ELSE 0
             borrow == IF a.lo < b.lo THEN 1 ELSE 0
         IN  IF x.neg = y.neg
             THEN Rounded(big.neg, [hi |-> a.hi + b.hi + carry,
                                    lo |-> a.lo + b.lo - carry * 2^28], big.exp - 3)
             ELSE Rounded(big.neg, [hi |-> a.hi - b.hi - borrow,
                                    lo |-> a.lo - b.lo + borrow * 2^28], big.exp - 3)

\* x - y
FloatSub(x, y) == FloatAdd(x, [y EXCEPT !.neg = y.hi /= 0 /\ ~@])

FloatLeq(x, y) ==
    IF x.neg /= y.neg THEN x.neg
    ELSE x = y \/ (IF x.neg THEN MagnitudeLess(y, x) ELSE MagnitudeLess(x, y))

FloatMin(S) == CHOOSE x \in S : \A y \in S : FloatLeq(x, y)

\* float(s) for the text of a group [\d\.]+: decimal digits with at most
\* one point and at least one digit.  ok = FALSE is Python's ValueError.
FloatOf(s) ==
    LET dots == {i \in 1..Len(s) : s[i] = "."}
        digits == SelectSeq(s, LAMBDA c : c /= ".")
    IN  IF /\ Cardinality(dots) <= 1
           /\ Len(digits) > 0
           /\ \A i \in 1..Len(s) : s[i] = "." \/ IsDigit(s[i], 10)
        THEN [ok |-> TRUE,
              val |-> Float(DigitsValue(digits, 10),
                            IF dots = {} THEN 0 ELSE Len(s) - SetMin(dots))]
        ELSE [ok |-> FALSE, val |-> Float(0, 0)]

(***************************************************************************)
(* fnmatch.fnmatch(name, pat) as parse_strace uses it (fnmatch.translate): *)
(* * is any run of characters, ? any one character, [seq] and [!seq] a     *)
(* class of characters and ranges x-y, a [ with no closing ] is literal,   *)
(* the whole name must match.                                              *)
(***************************************************************************)
\* the ] that closes the class opening at pat[1], 0 when there is none
ClassEnd(pat) ==
    LET n == Len(pat)
        j0 == IF n >= 2 /\ pat[2] = "!" THEN 3 ELSE 2
        j1 == IF j0 <= n /\ pat[j0] = "]" THEN j0 + 1 ELSE j0
        closes == {j \in j1..n : pat[j] = "]"}
    IN  IF closes = {} THEN 0 ELSE SetMin(closes)

\* the hyphens of stuff from position k on
Hyphens(stuff, k) == {h \in k..Len(stuff) : stuff[h] = "-"}

\* the loop that cuts stuff at its range hyphens: the chunk in hand starts
\* at i, the next hyphen is looked for from k on
RECURSIVE CutChunks(_, _, _)
CutChunks(stuff, i, k) ==
    IF Hyphens(stuff, k) = {}
    THEN << SubSeq(stuff, i, Len(stuff)) >>
    ELSE << SubSeq(stuff, i, SetMin(Hyphens(stuff, k)) - 1) >>
           \o CutChunks(stuff, SetMin(Hyphens(stuff, k)) + 1,
                        SetMin(Hyphens(stuff, k)) + 3)

\* if chunk: chunks.append(chunk) else: chunks[-1] += '-'
CloseChunks(chunks) ==
    IF Len(chunks) >= 2 /\ chunks[Len(chunks)] = <<>>
    THEN SubSeq(chunks, 1, Len(chunks) - 2)
           \o << Append(chunks[Len(chunks) - 1], "-") >>
    ELSE chunks

\* the loop that removes the empty ranges, from the pair (p, p + 1) down
RECURSIVE MergeChunks(_, _)
MergeChunks(chunks, p) ==
    IF p = 0 THEN chunks
    ELSE IF Ord(chunks[p][Len(chunks[p])]) > Ord(chunks[p + 1][1])
    THEN MergeChunks(SubSeq(chunks, 1, p - 1)
                       \o << SubSeq(chunks[p], 1, Len(chunks[p]) - 1)
                               \o Tail(chunks[p + 1]) >>
                       \o SubSeq(chunks, p + 2, Len(chunks)),
                     p - 1)
    ELSE MergeChunks(chunks, p - 1)

\* the chunks of the class stuff: a chunk's last character and the next
\* chunk's first are the ends of a range
ClassChunks(stuff) ==
    IF Hyphens(stuff, 1) = {} THEN << stuff >>
    ELSE LET chunks == CloseChunks(CutChunks(stuff, 1, IF stuff[1] = "!" THEN 3 ELSE 2))
         IN  MergeChunks(chunks, Len(chunks) - 1)

\* c is one of the characters or in one of the ranges of the chunks
InChunks(c, chunks) ==
    \/ \E p \in 1..Len(chunks) : \E q \in 1..Len(chunks[p]) : chunks[p][q] = c
    \/ \E p \in 1..(Len(chunks) - 1) :
         /\ Ord(chunks[p][Len(chunks[p])]) <= Ord(c)
         /\ Ord(c) <= Ord(chunks[p + 1][1])

\* the class the chunks make: none (?!), any character (.), [^...] or [...]
ClassMatches(c, chunks) ==
    IF chunks = << <<>> >> THEN FALSE
    ELSE IF chunks = << <<"!">> >> THEN TRUE
    ELSE IF chunks[1][1] = "!"
    THEN ~InChunks(c, [chunks EXCEPT ![1] = Tail(@)])
    ELSE InChunks(c, chunks)

RECURSIVE Fnmatch(_, _)
RECURSIVE FnmatchClass(_, _, _)
FnmatchClass(name, pat, e) ==
    IF e = 0
    THEN Len(name) > 0 /\ name[1] = "[" /\ Fnmatch(Tail(name), Tail(pat))
    ELSE /\ Len(name) > 0
         /\ ClassMatches(name[1], ClassChunks(SubSeq(pat, 2, e - 1)))
         /\ Fnmatch(Tail(name), SubSeq(pat, e + 1, Len(pat)))

Fnmatch(name, pat) ==
    IF Len(pat) = 0 THEN Len(name) = 0
    ELSE IF pat[1] = "*"
    THEN \E k \in 0..Len(name) : Fnmatch(SubSeq(name, k + 1, Len(name)), Tail(pat))
    ELSE IF pat[1] = "?"
    THEN Len(name) > 0 /\ Fnmatch(Tail(name), Tail(pat))
    ELSE IF pat[1] = "["
    THEN FnmatchClass(name, pat, ClassEnd(pat))
    ELSE Len(name) > 0 /\ name[1] = pat[1] /\ Fnmatch(Tail(name), Tail(pat))

\* mutant: only the first pattern is tried
AnyMatchFirstOnly(path, pats) == Fnmatch(path, pats[1])

\* any(fnmatch.fnmatch(path, p) for p in paths)
AnyMatch(path, pats) == \E i \in 1..Len(pats) : Fnmatch(path, pats[i])

(***************************************************************************)
(* DECODED_INFO_REG under match(): a greedy group arg, a "<", a lazy group *)
(* decoded, a ">".  The greedy arg ends at the last "<" that still has a   *)
(* ">" after it, the                                                       *)
(* lazy decoded part ends at the first ">" after that.  ok = FALSE is a    *)
(* failed match (None).                                                    *)
(***************************************************************************)
DecodedStarts(s) ==
    {i \in 1..Len(s) : s[i] = "<" /\ \E j \in (i + 1)..Len(s) : s[j] = ">"}

\* mutant: an argument with no annotation is taken whole as the descriptor
DecodedGroupsLenient(s, i) ==
    IF i = 0 THEN [ok |-> TRUE, arg |-> s, decoded |-> <<>>]
    ELSE [ok |-> TRUE,
          arg |-> SubSeq(s, 1, i - 1),
          decoded |-> SubSeq(s, i + 1,
                             SetMin({k \in (i + 1)..Len(s) : s[k] = ">"}) - 1)]

DecodedGroups(s, i) ==
    IF i = 0 THEN [ok |-> FALSE, arg |-> <<>>, decoded |-> <<>>]
    ELSE [ok |-> TRUE,
          arg |-> SubSeq(s, 1, i - 1),
          decoded |-> SubSeq(s, i + 1,
                             SetMin({k \in (i + 1)..Len(s) : s[k] = ">"}) - 1)]

DECODED_INFO_REG(s) ==
    DecodedGroups(s, IF DecodedStarts(s) = {} THEN 0 ELSE SetMax(DecodedStarts(s)))

(***************************************************************************)
(* class SYSCALL                                                           *)
(***************************************************************************)
SYSCALL_OPEN == {"open", "openat"}
SYSCALL_CLOSE == {"close"}
SYSCALL_READ == {"read"}
SYSCALL_WRITE == {"write"}

(***************************************************************************)
(* A line of the trace is given by what STRACE_REG.match finds in it:      *)
(* matched = FALSE when the line is not of the grammar, otherwise the      *)
(* groups: start_time and duration are texts of [\d\.]+, syscall is a \w+  *)
(* word, args and return_code are text.                                    *)
(*                                                                         *)
(* _parse_strace_line: None for a line that does not match ("none"), the   *)
(* Line tuple ("line"), or the ValueError of float() on one of the times   *)
(* or of int() on the return code ("raise").                               *)
(***************************************************************************)
SplitParts(parts) == [i \in 1..Len(parts) |-> Strip(parts[i], Whitespace)]

\* list(map(lambda x: x.strip(), args.split(',')))
SplitArgs(args) == SplitParts(Split(args, ","))

\* 16 if 'x' in return_code else 10
ReturnCodeBase(rc) == IF \E i \in 1..Len(rc) : rc[i] = "x" THEN 16 ELSE 10

ParsedLine(line, kind, rc, start, span) ==
    [kind |-> kind,
     start_time |-> start.val,
     syscall |-> line.syscall,
     args |-> IF kind = "line" THEN SplitArgs(line.args) ELSE <<>>,
     return_code |-> rc.val,
     duration |-> span.val]

\* mutant: a line the grammar does not match is an error
ParsedReturnCodeStrict(line, rc, start, span) ==
    ParsedLine(line,
               IF ~line.matched \/ ~start.ok \/ ~rc.ok \/ ~span.ok THEN "raise" ELSE "line",
               rc, start, span)

\* match is None: no record; float() raises on a time that is no number,
\* int() on a return code that is none: the ValueError leaves parse_strace
ParsedReturnCode(line, rc, start, span) ==
    ParsedLine(line,
               IF ~line.matched THEN "none"
               ELSE IF ~start.ok \/ ~rc.ok \/ ~span.ok THEN "raise" ELSE "line",
               rc, start, span)

ParseStraceLine(line) ==
    ParsedReturnCode(line, IntOf(line.return_code, ReturnCodeBase(line.return_code)),
                     FloatOf(line.start_time), FloatOf(line.duration))

(***************************************************************************)
(* class Action: the constructor's fields, and the lane table it fills.    *)
(***************************************************************************)
\* mutant: min for max
NextHeightFromMin(heights) ==
    (IF DOMAIN heights = {} THEN 10 ELSE SetMin(Range(heights))) + 30

\* max(list(Action.path_to_height.values()) or [10]) + 30
NextHeight(heights) ==
    (IF DOMAIN heights = {} THEN 10 ELSE SetMax(Range(heights))) + 30

\* Action.path_to_height.setdefault(self.path, ...)
SetDefaultHeight(heights, path) ==
    IF path \in DOMAIN heights THEN heights
    ELSE heights @@ (path :> NextHeight(heights))

Action(path, start_time, end_time, action) ==
    [path |-> path, start_time |-> start_time, end_time |-> end_time,
     action |-> action]

\* Action.height
Height(a) == path_to_height[a.path]

(***************************************************************************)
(* The pieces of parse_strace's loop body.                                 *)
(***************************************************************************)
\* the entry an open record stores
OpenEntry(line, path) ==
    [start_time |-> Some(line.start_time), path |-> path,
     duration |-> Some(line.duration)]

\* mutant: the default entry has no path
DefaultEntryNoPath(path) == [start_time |-> None, path |-> <<>>, duration |-> None]

\* {'start_time': None, 'path': path, 'duration': None}
DefaultEntry(path) == [start_time |-> None, path |-> path, duration |-> None]

\* mutant: the first argument is taken for the path
OpenPathFirstArg(line) == Strip(line.args[1], {"\""})

\* line.args[1].strip('"')
OpenPath(line) == Strip(line.args[2], {"\""})

\* fds[int(line.return_code)] = {...}
FdsStore(table, fd, entry) == (fd :> entry) @@ table

\* mutant: the pop never finds the entry
FdsPopEntryMissed(table, fd, default) == default

\* mutant: an entry the filter leaves out stays in the table
FdsPopTableIfPassing(table, fd) ==
    IF fd \in DOMAIN table /\ ~AnyMatch(table[fd].path, paths)
    THEN table
    ELSE [k \in DOMAIN table \ {fd} |-> table[k]]

\* fds.pop(fd, default): the entry found, and the table without it
FdsPopEntry(table, fd, default) == IF fd \in DOMAIN table THEN table[fd] ELSE default
FdsPopTable(table, fd) == [k \in DOMAIN table \ {fd} |-> table[k]]

\* fds.get(fd, default)
FdsGet(table, fd, default) == IF fd \in DOMAIN table THEN table[fd] ELSE default

\* mutant: only descriptor 1 is left out
NotStdStreamOnlyOne(fd) == fd /= 1

\* fd not in [1, 2]
NotStdStream(fd) == fd \notin {1, 2}

\* mutant: the duration is taken off
EndTimeBackwards(line) == FloatSub(line.start_time, line.duration)

\* line.start_time + line.duration
EndTime(line) == FloatAdd(line.start_time, line.duration)

\* mutant: the close's own start time is taken
CloseActionOwnStart(file, line) ==
    Action(file.path, Some(line.start_time), EndTime(line), "OPEN_CLOSE")

CloseAction(file, line) ==
    Action(file.path, file.start_time, EndTime(line), "OPEN_CLOSE")

\* mutant: the interval starts at the open
ReadActionFromOpen(file, line) ==
    Action(file.path, file.start_time, EndTime(line), "READ")

ReadAction(file, line) ==
    Action(file.path, Some(line.start_time), EndTime(line), "READ")

\* mutant: a write ends an interval of its descriptor
WriteActionAsOpenClose(file, line) ==
    Action(file.path, file.start_time, EndTime(line), "OPEN_CLOSE")

WriteAction(file, line) ==
    Action(file.path, Some(line.start_time), EndTime(line), "WRITE")

\* fd, path = DECODED_INFO_REG.match(line.args[0]).groups(); fd = int(fd)
\* ok = FALSE is the AttributeError of None.groups() or the ValueError of int()
DecodedFd(m, n) == [ok |-> m.ok /\ n.ok, fd |-> n.val, path |-> m.decoded]

DecodedArg(m) == DecodedFd(m, IntOf(m.arg, 10))

DecodeFd(line) == DecodedArg(DECODED_INFO_REG(line.args[1]))

(***************************************************************************)
(* main's default for the patterns: if not paths: paths = ("*",)           *)
(***************************************************************************)
DefaultPaths(given) == IF Len(given) = 0 THEN << <<"*">> >> ELSE given

(***************************************************************************)
(* parse_strace, one action per branch of the loop body.  Every action     *)
(* takes the next line of stderr, whatever it is; an exception ends the    *)
(* run in status "raised".                                                 *)
(***************************************************************************)
Running == status = "running"

\* the syscall group of a line the grammar matches is in a class
InClass(line, class) == line.matched /\ line.syscall \in class

Take(line) ==
    /\ consumed' = Append(consumed, line)
    /\ UNCHANGED <<paths, invocation, options, outputs>>

Keep == UNCHANGED <<fds, syscalls, path_to_height>>

\* syscalls.append(Action(...)): the constructor fills the lane table
Emit(a) ==
    /\ path_to_height' = SetDefaultHeight(path_to_height, a.path)
    /\ syscalls' = Append(syscalls, a)

Mark == trail' = Append(trail, [emitted |-> Len(syscalls'), fds |-> fds'])

\* the line gives no record (continue), its return code is no number
\* (int() raises), or its syscall is in none of the four classes
NoHandler(line) ==
    /\ Running
    /\ \E l \in {ParseStraceLine(line)} :
           /\ Take(line)
           /\ \/ l.kind = "none"
              \/ l.kind = "raise"
              \/ /\ l.kind = "line"
                 /\ l.syscall \notin
                      SYSCALL_OPEN \cup SYSCALL_CLOSE \cup SYSCALL_READ \cup SYSCALL_WRITE
           /\ status' = IF l.kind = "raise" THEN "raised" ELSE "running"
           /\ Keep
           /\ Mark

\* if line.syscall in SYSCALL.OPEN
Open(line) ==
    /\ Running
    /\ InClass(line, SYSCALL_OPEN)
    /\ \E l \in {ParseStraceLine(line)} :
           /\ Take(line)
           /\ l.kind = "line"
           /\ l.syscall \in SYSCALL_OPEN
           /\ IF Len(l.args) < 2
              THEN /\ status' = "raised"       \* IndexError of line.args[1]
                   /\ Keep
              ELSE /\ status' = "running"
                   /\ fds' = FdsStore(fds, l.return_code, OpenEntry(l, OpenPath(l)))
                   /\ UNCHANGED <<syscalls, path_to_height>>
           /\ Mark

\* the close branch once the descriptor is decoded
CloseDecoded(l, d, file) ==
    IF NotStdStream(d.fd)
    THEN /\ fds' = FdsPopTable(fds, d.fd)
         /\ IF AnyMatch(file.path, paths)
            THEN Emit(CloseAction(file, l))
            ELSE UNCHANGED <<syscalls, path_to_height>>
    ELSE Keep

\* elif line.syscall in SYSCALL.CLOSE
Close(line) ==
    /\ Running
    /\ InClass(line, SYSCALL_CLOSE)
    /\ \E l \in {ParseStraceLine(line)} :
           /\ Take(line)
           /\ l.kind = "line"
           /\ l.syscall \notin SYSCALL_OPEN
           /\ l.syscall \in SYSCALL_CLOSE
           /\ \E d \in {DecodeFd(l)} :
                IF ~d.ok
                THEN /\ status' = "raised"
                     /\ Keep
                ELSE /\ status' = "running"
                     /\ CloseDecoded(l, d, FdsPopEntry(fds, d.fd, DefaultEntry(d.path)))
           /\ Mark

\* mutant: the lookup removes the entry
ReadDecodedPopping(l, file) ==
    /\ fds' = FdsPopTable(fds, DecodeFd(l).fd)
    /\ IF AnyMatch(file.path, paths)
       THEN Emit(ReadAction(file, l))
       ELSE UNCHANGED <<syscalls, path_to_height>>

\* the read branch once the descriptor is decoded
ReadDecoded(l, file) ==
    /\ fds' = fds
    /\ IF AnyMatch(file.path, paths)
       THEN Emit(ReadAction(file, l))
       ELSE UNCHANGED <<syscalls, path_to_height>>

\* elif line.syscall in SYSCALL.READ
Read(line) ==
    /\ Running
    /\ InClass(line, SYSCALL_READ)
    /\ \E l \in {ParseStraceLine(line)} :
           /\ Take(line)
           /\ l.kind = "line"
           /\ l.syscall \notin SYSCALL_OPEN \cup SYSCALL_CLOSE
           /\ l.syscall \in SYSCALL_READ
           /\ \E d \in {DecodeFd(l)} :
                IF ~d.ok
                THEN /\ status' = "raised"
                     /\ Keep
                ELSE /\ status' = "running"
                     /\ ReadDecoded(l, FdsGet(fds, d.fd, DefaultEntry(d.path)))
           /\ Mark

\* the write branch once the descriptor is decoded
WriteDecoded(l, file) ==
    /\ fds' = fds
    /\ IF AnyMatch(file.path, paths)
       THEN Emit(WriteAction(file, l))
       ELSE UNCHANGED <<syscalls, path_to_height>>

\* elif line.syscall in SYSCALL.WRITE
Write(line) ==
    /\ Running
    /\ InClass(line, SYSCALL_WRITE)
    /\ \E l \in {ParseStraceLine(line)} :
           /\ Take(line)
           /\ l.kind = "line"
           /\ l.syscall \notin SYSCALL_OPEN \cup SYSCALL_CLOSE \cup SYSCALL_READ
           /\ l.syscall \in SYSCALL_WRITE
           /\ \E d \in {DecodeFd(l)} :
                IF ~d.ok
                THEN /\ status' = "raised"
                     /\ Keep
                ELSE /\ status' = "running"
                     /\ WriteDecoded(l, FdsGet(fds, d.fd, DefaultEntry(d.path)))
           /\ Mark

\* the loop is over: return syscalls
Return ==
    /\ status = "running"
    /\ status' = "returned"
    /\ UNCHANGED <<paths, fds, syscalls, path_to_height, consumed, trail, invocation,
                   options, outputs>>

\* parse_strace is called again in the same process: syscalls = [] and
\* fds = {} are new, Action.path_to_height is the class's
Invoke(given) ==
    /\ status \in {"returned", "raised"}
    /\ invocation < MaxInvocations
    /\ invocation' = invocation + 1
    /\ paths' = DefaultPaths(given)
    /\ fds' = <<>>
    /\ syscalls' = <<>>
    /\ status' = "running"
    /\ consumed' = <<>>
    /\ trail' = <<>>
    /\ UNCHANGED <<path_to_height, options, outputs>>

\* main's options when only --strace (and perhaps --path) is given
TraceFile == <<"t">>
FileOptions ==
    [strace |-> Some(TraceFile), pid |-> None, command |-> None,
     keep_timestamps |-> FALSE]

\* the process starts with --strace, main reads the file and parse_strace
\* is called for the first time
Start(given) ==
    /\ options = FileOptions
    /\ outputs = <<>>
    /\ paths = DefaultPaths(given)
    /\ fds = <<>>
    /\ syscalls = <<>>
    /\ path_to_height = <<>>
    /\ status = "running"
    /\ consumed = <<>>
    /\ trail = <<>>
    /\ invocation = 1

(***************************************************************************)
(* main: the choice of the trace source, and generate_svg.                 *)
(***************************************************************************)
\* the truth value Python gives an option or a start time
TruthyNumber(v) == v /= None /\ v[1] /= 0
TruthyText(v) == v /= None /\ v[1] /= <<>>
TruthyFloat(v) == v /= None /\ v[1].hi /= 0

BothMessage == "cannot run with both pid and command options"
NeitherMessage == "required either strace, pid or command"

Printed(text) == [kind |-> "print", text |-> text, drawing |-> <<>>]
\* the file ./iotracer.strace-<time> main writes the trace it took to
Written == [kind |-> "file", text |-> "iotracer.strace", drawing |-> <<>>]

\* main is entered with its options
StartMain(given, opts) ==
    /\ options = opts
    /\ outputs = <<>>
    /\ paths = given
    /\ fds = <<>>
    /\ syscalls = <<>>
    /\ path_to_height = <<>>
    /\ status = "main"
    /\ consumed = <<>>
    /\ trail = <<>>
    /\ invocation = 0

\* strace_results = parse_strace(stderr, paths)
CallParseStrace(written) ==
    /\ status' = "running"
    /\ invocation' = invocation + 1
    /\ outputs' = outputs \o written

\* print(message); return
ExitWith(message) ==
    /\ status' = "exited"
    /\ invocation' = invocation
    /\ outputs' = Append(outputs, Printed(message))

\* main up to the call of parse_strace
ChooseSource ==
    /\ status = "main"
    /\ paths' = DefaultPaths(paths)
    /\ IF TruthyText(options.strace)
       THEN CallParseStrace(<<>>)
       ELSE IF TruthyNumber(options.pid) /\ TruthyText(options.command)
            THEN ExitWith(BothMessage)
            ELSE IF ~TruthyNumber(options.pid) /\ ~TruthyText(options.command)
                 THEN ExitWith(NeitherMessage)
                 ELSE CallParseStrace(<< Written >>)
    /\ UNCHANGED <<fds, syscalls, path_to_height, consumed, trail, options>>

\* the start times of x for x in strace_results if x.start_time
KnownStarts(list) ==
    {list[k].start_time[1] : k \in {j \in 1..Len(list) : TruthyFloat(list[j].start_time)}}

\* the loop body of the normalisation
Normalized(a, start) ==
    [a EXCEPT !.start_time = IF TruthyFloat(@) THEN Some(FloatSub(@[1], start))
                             ELSE Some(Float(0, 0)),
              !.end_time = FloatSub(@, start)]

NormalizedList(list, start, keep_timestamps) ==
    IF keep_timestamps
    THEN list
    ELSE [k \in 1..Len(list) |-> Normalized(list[k], start)]

\* res.duration is end_time - start_time: a TypeError when start_time is None
Draws(list) == \A k \in 1..Len(list) : list[k].start_time /= None

\* the rectangle added for an Action
Rect(a) ==
    [path |-> a.path, x |-> a.start_time[1], y |-> Height(a),
     width |-> FloatSub(a.end_time, a.start_time[1]), action |-> a.action]

Drawing(list) ==
    [kind |-> "print", text |-> "svg", drawing |-> [k \in 1..Len(list) |-> Rect(list[k])]]

\* generate_svg once the list is normalised
DrawList(list) ==
    /\ syscalls' = list
    /\ IF Draws(list)
       THEN /\ status' = "drawn"
            /\ outputs' = Append(outputs, Drawing(list))
       ELSE /\ status' = "raised_svg"
            /\ outputs' = outputs

\* generate_svg(strace_results, keep_timestamps); min() of no start time
\* raises ValueError
GenerateSvg ==
    /\ status = "returned"
    /\ IF KnownStarts(syscalls) = {}
       THEN /\ status' = "raised_svg"
            /\ UNCHANGED <<syscalls, outputs>>
       ELSE DrawList(NormalizedList(syscalls, FloatMin(KnownStarts(syscalls)),
                                    options.keep_timestamps))
    /\ UNCHANGED <<paths, fds, path_to_height, consumed, trail, invocation, options>>

(***************************************************************************)
(* The trace lines the specifications draw from.                           *)
(***************************************************************************)
PathA == <<"/", "a">>
PathB == <<"/", "b">>
PathC == <<"/", "c">>
PathTmpF == <<"/", "t", "m", "p", "/", "f">>

Quoted(text) == <<"\"">> \o text \o <<"\"">>
Decorated(fd, path) == fd \o <<"<">> \o path \o <<">">>
\* the markup the specification's example writes around the path
Markup(fd, path) ==
    fd \o <<"<", "d", "e", "c", "o", "d", "e", "d", ">">> \o path
       \o <<"<", "/", "d", "e", "c", "o", "d", "e", "d", ">">>

AT_FDCWD == <<"A", "T", "_", "F", "D", "C", "W", "D">>
O_RDONLY == <<"O", "_", "R", "D", "O", "N", "L", "Y">>
Sep == <<",", " ">>

OpenatArgs(path) == AT_FDCWD \o Sep \o Quoted(path) \o Sep \o O_RDONLY
CloseArgs(fdarg) == fdarg
ReadArgs(fdarg) == fdarg \o Sep \o Quoted(<<"x">>) \o Sep \o <<"1", "0">>
WriteArgs(fdarg) == fdarg \o Sep \o Quoted(<<"y">>) \o Sep \o <<"1">>

\* a natural number in decimal
RECURSIVE DecimalText(_)
DecimalText(n) ==
    IF n < 10 THEN <<HexDigits[n + 1]>>
    ELSE DecimalText(n \div 10) \o <<HexDigits[(n % 10) + 1]>>

\* t ms as strace writes a time: the seconds, a point, the fraction
TimeText(t) ==
    DecimalText(t \div 1000)
      \o <<".", HexDigits[((t \div 100) % 10) + 1], HexDigits[((t \div 10) % 10) + 1],
           HexDigits[(t % 10) + 1]>>

\* a line of the grammar with its groups
Groups(start_time, syscall, args, rc, duration) ==
    [matched |-> TRUE, start_time |-> start_time, syscall |-> syscall, args |-> args,
     return_code |-> rc, duration |-> duration]

\* a line of the grammar that starts at t ms and lasts d ms
Matched(t, syscall, args, rc, d) == Groups(TimeText(t), syscall, args, rc, TimeText(d))

\* a line STRACE_REG does not match: a banner, a signal, a cut line
Unmatched ==
    [matched |-> FALSE, start_time |-> <<>>, syscall |-> "", args |-> <<>>,
     return_code |-> <<>>, duration |-> <<>>]

\* a syscall of none of the four classes, with a hexadecimal return code
OtherLine(t) == Matched(t, "mmap", <<"N", "U", "L", "L">>, <<"0", "x", "7", "f">>, 0)

\* The general family: the lines the trace may have at t ms, and one close
\* that is stamped 0 (a trace whose times go back).  A close lasts 1 ms and
\* a read 3 ms: with the stamps of Feed some of the sums start_time +
\* duration are rounded (0.008 + 0.001 is 0.009000000000000001), some exact.
GeneralLines(t) ==
    { Unmatched,
      Matched(t, "openat", OpenatArgs(PathA), <<"3">>, 1),
      Matched(t, "openat", OpenatArgs(PathB), <<"3">>, 1),
      Matched(t, "close", CloseArgs(Decorated(<<"3">>, PathA)), <<"0">>, 1),
      Matched(0, "close", CloseArgs(Decorated(<<"3">>, PathA)), <<"0">>, 0),
      Matched(t, "close", CloseArgs(<<"3">>), <<"0">>, 1),
      Matched(t, "close", CloseArgs(<<"1">>), <<"0">>, 1),
      Matched(t, "read", ReadArgs(Decorated(<<"3">>, PathA)), <<"1", "0">>, 3),
      Matched(t, "read", ReadArgs(<<"3">>), <<"1", "0">>, 3),
      Matched(t, "write", WriteArgs(Decorated(<<"4">>, PathC)), <<"1">>, 0),
      Matched(t, "write", WriteArgs(<<"4">>), <<"1">>, 0) }

\* the --path options main may be given (none: the default)
GeneralGiven ==
    { <<>>,
      << PathA >>,
      << <<"/", "b", "*">>, <<"?", "c">> >> }

\* The standard-stream family: records on descriptors 1 and 2, an open
\* that returns 1, and a close of another descriptor.
StdLines(t) ==
    { Unmatched,
      Matched(t, "openat", OpenatArgs(PathA), <<"1">>, 1),
      Matched(t, "close", CloseArgs(Decorated(<<"1">>, PathA)), <<"0">>, 1),
      Matched(t, "close", CloseArgs(Decorated(<<"2">>, PathB)), <<"0">>, 1),
      Matched(t, "close", CloseArgs(Decorated(<<"3">>, PathA)), <<"0">>, 1),
      Matched(t, "close", CloseArgs(<<"1">>), <<"0">>, 1),
      Matched(t, "read", ReadArgs(Decorated(<<"2">>, PathB)), <<"1", "0">>, 3),
      Matched(t, "write", WriteArgs(Decorated(<<"1">>, PathA)), <<"1">>, 0) }

StdGiven == { <<>>, << PathB >> }

\* The reuse family: one descriptor opened, closed and opened again, with
\* a record on another descriptor and a syscall of no class between.
ReuseLines(t) ==
    { OtherLine(t),
      Matched(t, "openat", OpenatArgs(PathA), <<"3">>, 1),
      Matched(t, "openat", OpenatArgs(PathB), <<"3">>, 1),
      Matched(t, "close", CloseArgs(Decorated(<<"3">>, PathA)), <<"0">>, 1),
      Matched(t, "read", ReadArgs(Decorated(<<"4">>, PathC)), <<"1", "0">>, 3),
      Matched(t, "write", WriteArgs(Decorated(<<"3">>, PathA)), <<"1">>, 0) }

ReuseGiven == { <<>>, << PathA, PathB >> }

\* The end-to-end family: the three records of the example with their own
\* times, the same read and close with the example's markup written out,
\* a write and a line of no grammar.
E2EOpen == Matched(0, "openat", OpenatArgs(PathTmpF), <<"3">>, 1)
E2ERead == Matched(2, "read", ReadArgs(Decorated(<<"3">>, PathTmpF)), <<"1", "0">>, 3)
E2EClose == Matched(10, "close", CloseArgs(Decorated(<<"3">>, PathTmpF)), <<"0">>, 1)

E2ELines ==
    { Unmatched, E2EOpen, E2ERead, E2EClose,
      Matched(2, "read", ReadArgs(Markup(<<"3">>, PathTmpF)), <<"1", "0">>, 3),
      Matched(10, "close", CloseArgs(Markup(<<"3">>, PathTmpF)), <<"0">>, 1),
      Matched(5, "write", WriteArgs(Decorated(<<"3">>, PathTmpF)), <<"1">>, 1) }

TmpGlob == <<"/", "t", "m", "p", "/", "*">>
EtcGlob == <<"/", "e", "t", "c", "/", "*">>

E2EGiven == { <<>>, << TmpGlob >>, << EtcGlob >> }

\* The family of the repeated call: short traces on two paths.
RunLines(t) ==
    { Unmatched,
      Matched(t, "openat", OpenatArgs(PathA), <<"3">>, 1),
      Matched(t, "close", CloseArgs(Decorated(<<"3">>, PathA)), <<"0">>, 1),
      Matched(t, "read", ReadArgs(Decorated(<<"3">>, PathA)), <<"1", "0">>, 3),
      Matched(t, "write", WriteArgs(Decorated(<<"3">>, PathB)), <<"1">>, 0) }

RunGiven == { <<>>, << PathA >> }

\* The grammar family: a line of no grammar, a record whose return code is
\* the unresolved marker, the two forms of the OPEN class, a record whose
\* start time is no number, and a close written with a no-break space
\* around its argument, an underscore in the descriptor and an
\* Arabic-Indic zero for the return code.
OpenArgs(path) == Quoted(path) \o Sep \o O_RDONLY

Malformed ==
    Groups(<<"1", ".", "2", ".", "3">>, "close", CloseArgs(Decorated(<<"3">>, PathA)),
           <<"0">>, TimeText(1))

Exotic(t) ==
    Groups(TimeText(t), "close",
           <<"U+00A0">> \o CloseArgs(Decorated(<<"1", "_", "0">>, PathA)) \o <<"U+00A0">>,
           <<"U+0660">>, TimeText(1))

Unresolved(t) ==
    Matched(t, "read", ReadArgs(Decorated(<<"3">>, PathA)), <<"?">>, 2)

GrammarLines(t) ==
    { Unmatched,
      Unresolved(t),
      Malformed,
      Exotic(t),
      OtherLine(t),
      Matched(t, "open", OpenArgs(PathA), <<"3">>, 1),
      Matched(t, "openat", OpenatArgs(PathB), <<"3">>, 1),
      Matched(t, "close", CloseArgs(Decorated(<<"3">>, PathA)), <<"0">>, 1),
      Matched(t, "read", ReadArgs(Decorated(<<"3">>, PathA)), <<"1", "0">>, 3),
      Matched(t, "write", WriteArgs(Decorated(<<"3">>, PathB)), <<"1">>, 0) }

\* a pattern with a range among the given ones
RangeGlob == <<"/", "[", "a", "-", "b", "]">>

GrammarGiven == { <<>>, << PathA >>, << RangeGlob >> }

\* The family of main: short traces with a close of a descriptor never
\* opened and a write stamped 0, under every combination of the options.
MainLines(t) ==
    { Unmatched,
      Matched(t, "openat", OpenatArgs(PathA), <<"3">>, 1),
      Matched(t, "close", CloseArgs(Decorated(<<"3">>, PathA)), <<"0">>, 1),
      Matched(t, "read", ReadArgs(Decorated(<<"3">>, PathA)), <<"1", "0">>, 3),
      Matched(0, "write", WriteArgs(Decorated(<<"4">>, PathC)), <<"1">>, 1) }

MainGiven == { <<>>, << PathA >> }

MainOptions ==
    [strace : {None, Some(TraceFile)},
     pid : {None, Some(0), Some(7)},
     command : {None, Some(<<>>), Some(<<"l", "s">>)},
     keep_timestamps : BOOLEAN]

(***************************************************************************)
(* Specifications.  Spec: one call of parse_strace on a trace of the       *)
(* general family.                                                         *)
(***************************************************************************)
Init == \E given \in GeneralGiven : Start(given)

\* the lines the loop may take next: stderr has at most MaxLines lines, the
\* k-th stamped k + 7 ms
Feed == IF Len(consumed) < MaxLines THEN GeneralLines(Len(consumed) + 8) ELSE {}

Next ==
    \/ \E line \in Feed : NoHandler(line)
    \/ \E line \in Feed : Open(line)
    \/ \E line \in Feed : Close(line)
    \/ \E line \in Feed : Read(line)
    \/ \E line \in Feed : Write(line)
    \/ Return

Spec == Init /\ [][Next]_vars

\* SpecReuse: one call on a trace of the reuse family.
InitStd == \E given \in StdGiven : Start(given)

\* the lines the loop may take next: stderr has at most MaxStdLines lines
FeedStd == IF Len(consumed) < MaxStdLines THEN StdLines(Len(consumed) + 8) ELSE {}

NextStd ==
    \/ \E line \in FeedStd : NoHandler(line)
    \/ \E line \in FeedStd : Open(line)
    \/ \E line \in FeedStd : Close(line)
    \/ \E line \in FeedStd : Read(line)
    \/ \E line \in FeedStd : Write(line)
    \/ Return

SpecStd == InitStd /\ [][NextStd]_vars

\* SpecReuse: one call on a trace of the reuse family.
InitReuse == \E given \in ReuseGiven : Start(given)

FeedReuse == IF Len(consumed) < MaxReuseLines THEN ReuseLines(Len(consumed) + 8) ELSE {}

NextReuse ==
    \/ \E line \in FeedReuse : NoHandler(line)
    \/ \E line \in FeedReuse : Open(line)
    \/ \E line \in FeedReuse : Close(line)
    \/ \E line \in FeedReuse : Read(line)
    \/ \E line \in FeedReuse : Write(line)
    \/ Return

SpecReuse == InitReuse /\ [][NextReuse]_vars

\* SpecE2E: one call on a trace of the end-to-end family.
InitE2E == \E given \in E2EGiven : Start(given)

FeedE2E == IF Len(consumed) < MaxE2ELines THEN E2ELines ELSE {}

NextE2E ==
    \/ \E line \in FeedE2E : NoHandler(line)
    \/ \E line \in FeedE2E : Open(line)
    \/ \E line \in FeedE2E : Close(line)
    \/ \E line \in FeedE2E : Read(line)
    \/ \E line \in FeedE2E : Write(line)
    \/ Return

SpecE2E == InitE2E /\ [][NextE2E]_vars

\* SpecRuns: parse_strace called up to MaxInvocations times in one process.
InitRuns == \E given \in RunGiven : Start(given)

FeedRuns == IF Len(consumed) < MaxRunLines THEN RunLines(Len(consumed) + 8) ELSE {}

NextRuns ==
    \/ \E line \in FeedRuns : NoHandler(line)
    \/ \E line \in FeedRuns : Open(line)
    \/ \E line \in FeedRuns : Close(line)
    \/ \E line \in FeedRuns : Read(line)
    \/ \E line \in FeedRuns : Write(line)
    \/ Return
    \/ \E given \in RunGiven : Invoke(given)

SpecRuns == InitRuns /\ [][NextRuns]_vars

\* SpecGrammar: one call on a trace of the grammar family.

InitGrammar == \E given \in GrammarGiven : Start(given)

FeedGrammar ==
    IF Len(consumed) < MaxGrammarLines THEN GrammarLines(Len(consumed) + 8) ELSE {}

NextGrammar ==
    \/ \E line \in FeedGrammar : NoHandler(line)
    \/ \E line \in FeedGrammar : Open(line)
    \/ \E line \in FeedGrammar : Close(line)
    \/ \E line \in FeedGrammar : Read(line)
    \/ \E line \in FeedGrammar : Write(line)
    \/ Return

SpecGrammar == InitGrammar /\ [][NextGrammar]_vars

\* SpecMain: one run of main, from its options to the drawing.

InitMain == \E given \in MainGiven : \E opts \in MainOptions : StartMain(given, opts)

FeedMain == IF Len(consumed) < MaxMainLines THEN MainLines(Len(consumed) + 8) ELSE {}

NextMain ==
    \/ ChooseSource
    \/ \E line \in FeedMain : NoHandler(line)
    \/ \E line \in FeedMain : Open(line)
    \/ \E line \in FeedMain : Close(line)
    \/ \E line \in FeedMain : Read(line)
    \/ \E line \in FeedMain : Write(line)
    \/ Return
    \/ GenerateSvg

SpecMain == InitMain /\ [][NextMain]_vars

(***************************************************************************)
(* Reading the history.  Line i of the trace found the table               *)
(* TableBefore(i) and left TableAfter(i); EmittedBy(i) are the Actions it  *)
(* appended.  The lines are recognised by how the trace families write     *)
(* them, not by the parser.                                                *)
(***************************************************************************)
TableBefore(i) == IF i = 1 THEN <<>> ELSE trail[i - 1].fds
TableAfter(i) == trail[i].fds
CountBefore(i) == IF i = 1 THEN 0 ELSE trail[i - 1].emitted
EmittedBy(i) == SubSeq(syscalls, CountBefore(i) + 1, trail[i].emitted)
RaisedAt(i) == i = Len(consumed) /\ status = "raised"

KnownFds == 1..4
KnownStamps == 0..13

\* the times of a line in ms, read from how the families write them
StampTexts == [t \in KnownStamps |-> TimeText(t)]
StartMs(line) == CHOOSE t \in KnownStamps : StampTexts[t] = line.start_time
SpanMs(line) == CHOOSE t \in KnownStamps : StampTexts[t] = line.duration

\* the same times as doubles, and the end of a line: start_time + duration
StampTimes == [t \in KnownStamps |-> Ms(t)]
StartOf(line) == StampTimes[StartMs(line)]
SpanOf(line) == StampTimes[SpanMs(line)]
EndOf(line) == FloatAdd(StartOf(line), SpanOf(line))

KnownPaths == {PathA, PathB, PathC}
FdText(fd) == <<HexDigits[fd + 1]>>

\* the argument texts of the families, written once
OpenatArgsOf == [path \in KnownPaths |-> OpenatArgs(path)]
CloseArgsOf ==
    [fd \in KnownFds |-> [path \in KnownPaths |-> CloseArgs(Decorated(FdText(fd), path))]]
ReadArgsOf ==
    [fd \in KnownFds |-> [path \in KnownPaths |-> ReadArgs(Decorated(FdText(fd), path))]]
WriteArgsOf ==
    [fd \in KnownFds |-> [path \in KnownPaths |-> WriteArgs(Decorated(FdText(fd), path))]]
BareArgs ==
    {CloseArgs(FdText(fd)) : fd \in KnownFds}
      \cup {ReadArgs(FdText(fd)) : fd \in KnownFds}
      \cup {WriteArgs(FdText(fd)) : fd \in KnownFds}

IsOpenat(line, fd, path) ==
    /\ line.matched
    /\ line.syscall = "openat"
    /\ line.return_code = FdText(fd)
    /\ line.args = OpenatArgsOf[path]

IsClose(line, fd, path) ==
    /\ line.matched
    /\ line.syscall = "close"
    /\ line.args = CloseArgsOf[fd][path]

IsRead(line, fd, path) ==
    /\ line.matched
    /\ line.syscall = "read"
    /\ line.args = ReadArgsOf[fd][path]

IsWrite(line, fd, path) ==
    /\ line.matched
    /\ line.syscall = "write"
    /\ line.args = WriteArgsOf[fd][path]

\* a close, read or write whose first argument is the bare descriptor
IsUndecorated(line) ==
    /\ line.matched
    /\ line.syscall \in {"close", "read", "write"}
    /\ line.args \in BareArgs

\* what each pattern of the families includes among the families' paths
GlobIncludes(pat, path) ==
    CASE pat = <<"*">> -> TRUE
      [] pat = PathA -> path = PathA
      [] pat = PathB -> path = PathB
      [] pat = <<"/", "b", "*">> -> path = PathB
      [] pat = <<"?", "c">> -> path = PathC

PassesFilter(path) == \E k \in 1..Len(paths) : GlobIncludes(paths[k], path)

\* the path line i resolves to: the tracked entry's, else the decorated one
ResolvedPath(i, fd, path) ==
    IF fd \in DOMAIN TableBefore(i) THEN TableBefore(i)[fd].path ELSE path

\* line i is a read or a write, or a close of a descriptor other than 1, 2
IsAccess(line, fd, path) ==
    \/ IsRead(line, fd, path)
    \/ IsWrite(line, fd, path)
    \/ fd \notin {1, 2} /\ IsClose(line, fd, path)

(***************************************************************************)
(* C1.  Every Action of the result has a path that one of the patterns     *)
(* includes; a close, read or write emits one Action when its resolved     *)
(* path passes the filter and none when it does not, so under the default  *)
(* pattern "*" none is left out.                                           *)
(***************************************************************************)
C1_EmittedIffPathMatches ==
    /\ \A k \in 1..Len(syscalls) : PassesFilter(syscalls[k].path)
    /\ \A i \in 1..Len(consumed) : \A fd \in KnownFds : \A path \in KnownPaths :
         IsAccess(consumed[i], fd, path) =>
           Len(EmittedBy(i)) = IF PassesFilter(ResolvedPath(i, fd, path)) THEN 1 ELSE 0

\* a pattern pair whose second pattern alone admits a path, next to an
\* access the filter left out
C1_Witness ==
    /\ Len(paths) = 2
    /\ \E k \in 1..Len(syscalls) : syscalls[k].path = PathC
    /\ \E i \in 1..Len(consumed) : \E fd \in KnownFds : \E path \in KnownPaths :
         /\ IsAccess(consumed[i], fd, path)
         /\ ~PassesFilter(ResolvedPath(i, fd, path))
         /\ EmittedBy(i) = <<>>

(***************************************************************************)
(* C2.  Descriptors 1 and 2 are never tracked or emitted: the table has    *)
(* no entry keyed 1 or 2, and no record on descriptor 1 or 2 appends an    *)
(* Action.  (The code tracks an open that returns 1 and emits for a read   *)
(* or write on 1 or 2.)                                                    *)
(***************************************************************************)
C2_StdStreamsNeverTrackedNorEmitted ==
    /\ DOMAIN fds \cap {1, 2} = {}
    /\ \A i \in 1..Len(consumed) : \A fd \in {1, 2} : \A path \in KnownPaths :
         (\/ IsRead(consumed[i], fd, path)
          \/ IsWrite(consumed[i], fd, path)
          \/ IsClose(consumed[i], fd, path)) => EmittedBy(i) = <<>>

(***************************************************************************)
(* C3.  A close whose decoded descriptor is 1 or 2 appends no Action,      *)
(* leaves the descriptor table as it was and does not end the run.         *)
(***************************************************************************)
C3_CloseOfStdStreamIgnored ==
    \A i \in 1..Len(consumed) : \A fd \in {1, 2} : \A path \in KnownPaths :
        IsClose(consumed[i], fd, path) =>
          /\ EmittedBy(i) = <<>>
          /\ TableAfter(i) = TableBefore(i)
          /\ ~RaisedAt(i)

\* the table holds an entry for descriptor 1 whose path passes the filter
\* when close(1) comes
C3_Witness ==
    \E i \in 1..Len(consumed) : \E path \in KnownPaths :
        /\ IsClose(consumed[i], 1, path)
        /\ 1 \in DOMAIN TableBefore(i)
        /\ PassesFilter(TableBefore(i)[1].path)
        /\ 1 \in DOMAIN TableAfter(i)

(***************************************************************************)
(* C4.  Descriptor reuse is never merged.  Whenever the trace holds        *)
(* open(fd, pa), close(fd), open(fd, pb), close(fd) in this order with     *)
(* only records on other descriptors between them and both paths pass the  *)
(* filter: the opens append nothing, the first close appends exactly the   *)
(* OPEN_CLOSE Action of pa with the first open's start time, the second    *)
(* exactly that of pb with the second open's start time, each close leaves *)
(* no entry for fd, and the entry the second open stores is made of the    *)
(* second open alone.                                                      *)
(***************************************************************************)
IsCloseOf(line, fd) == \E path \in KnownPaths : IsClose(line, fd, path)

IsOnDescriptor(line, fd) ==
    \E path \in KnownPaths :
        \/ IsOpenat(line, fd, path)
        \/ IsClose(line, fd, path)
        \/ IsRead(line, fd, path)
        \/ IsWrite(line, fd, path)

OpenCloseOf(path, open, close) ==
    [path |-> path, start_time |-> Some(StartOf(open)),
     end_time |-> EndOf(close),
     action |-> "OPEN_CLOSE"]

\* lines i < j < k < l are the four records of a reuse of fd
IsReuse(fd, pa, pb, i, j, k, l) ==
    /\ i < j /\ j < k /\ k < l
    /\ IsOpenat(consumed[i], fd, pa)
    /\ IsCloseOf(consumed[j], fd)
    /\ IsOpenat(consumed[k], fd, pb)
    /\ IsCloseOf(consumed[l], fd)
    /\ \A m \in (i + 1)..(l - 1) : m \in {j, k} \/ ~IsOnDescriptor(consumed[m], fd)
    /\ PassesFilter(pa)
    /\ PassesFilter(pb)

C4_ReuseNeverMerged ==
    \A fd \in KnownFds \ {1, 2} : \A pa \in KnownPaths : \A pb \in KnownPaths :
      \A i \in 1..Len(consumed) : IsOpenat(consumed[i], fd, pa) =>
        \A j \in (i + 1)..Len(consumed) : \A k \in (j + 1)..Len(consumed) :
          \A l \in (k + 1)..Len(consumed) :
          IsReuse(fd, pa, pb, i, j, k, l) =>
            /\ EmittedBy(i) = <<>>
            /\ EmittedBy(j) = << OpenCloseOf(pa, consumed[i], consumed[j]) >>
            /\ fd \notin DOMAIN TableAfter(j)
            /\ EmittedBy(k) = <<>>
            /\ TableAfter(k)[fd] = [start_time |-> Some(StartOf(consumed[k])),
                                    path |-> pb,
                                    duration |-> Some(SpanOf(consumed[k]))]
            /\ EmittedBy(l) = << OpenCloseOf(pb, consumed[k], consumed[l]) >>
            /\ fd \notin DOMAIN TableAfter(l)

\* a reuse of descriptor 3 for two paths, with a record on descriptor 4
\* between the first close and the second open
C4_Witness ==
    \E i \in 1..Len(consumed) : \E j \in 1..Len(consumed) :
      \E k \in 1..Len(consumed) : \E l \in 1..Len(consumed) :
        /\ IsReuse(3, PathA, PathB, i, j, k, l)
        /\ k > j + 1
        /\ IsOnDescriptor(consumed[j + 1], 4)
        /\ Len(syscalls) >= 2

(***************************************************************************)
(* C5.  In a trace whose start times never go back (durations cannot be    *)
(* negative), every Action with a known start time ends no earlier than    *)
(* it starts.                                                              *)
(***************************************************************************)
IsMonotonic ==
    \A i \in 1..Len(consumed) : \A j \in i..Len(consumed) :
        (consumed[i].matched /\ consumed[j].matched) =>
          /\ StartMs(consumed[i]) <= StartMs(consumed[j])
          /\ SpanMs(consumed[i]) >= 0

C5_EndNotBeforeStart ==
    IsMonotonic =>
      \A k \in 1..Len(syscalls) :
          syscalls[k].start_time /= <<>> =>
            FloatLeq(syscalls[k].start_time[1], syscalls[k].end_time)

\* an OPEN_CLOSE whose start is that of an open that overwrote an earlier
\* open of the same descriptor
C5_Witness ==
    /\ IsMonotonic
    /\ \E i \in 1..Len(consumed) : \E path \in KnownPaths : \E other \in KnownPaths :
         /\ i + 2 <= Len(consumed)
         /\ IsOpenat(consumed[i], 3, other)
         /\ IsOpenat(consumed[i + 1], 3, path)
         /\ IsCloseOf(consumed[i + 2], 3)
         /\ EmittedBy(i + 2) = << OpenCloseOf(path, consumed[i + 1], consumed[i + 2]) >>

(***************************************************************************)
(* C6.  A read or write on a descriptor with no entry in the table does    *)
(* not end the run; it appends exactly one Action, with the decorated path *)
(* and the record's own times, when that path passes the filter, and       *)
(* nothing otherwise.                                                      *)
(***************************************************************************)
C6_UntrackedReadWrite ==
    \A i \in 1..Len(consumed) : \A fd \in KnownFds : \A path \in KnownPaths :
        ((IsRead(consumed[i], fd, path) \/ IsWrite(consumed[i], fd, path))
           /\ fd \notin DOMAIN TableBefore(i)) =>
          /\ ~RaisedAt(i)
          /\ TableAfter(i) = TableBefore(i)
          /\ EmittedBy(i) =
               IF PassesFilter(path)
               THEN << [path |-> path,
                        start_time |-> Some(StartOf(consumed[i])),
                        end_time |-> EndOf(consumed[i]),
                        action |-> IF consumed[i].syscall = "read"
                                   THEN "READ" ELSE "WRITE"] >>
               ELSE <<>>

\* a read on a descriptor that was opened for another path and closed
C6_Witness ==
    \E i \in 1..Len(consumed) :
        /\ i + 2 <= Len(consumed)
        /\ IsOpenat(consumed[i], 3, PathB)
        /\ IsCloseOf(consumed[i + 1], 3)
        /\ IsRead(consumed[i + 2], 3, PathA)
        /\ Len(EmittedBy(i + 2)) = 1
        /\ EmittedBy(i + 2)[1].path = PathA

(***************************************************************************)
(* C7.  End to end: openat of /tmp/f returning 3 at 0 ms (1 ms long), a    *)
(* read on 3 decorated /tmp/f at 2 ms (3 ms long) and a close on 3         *)
(* decorated /tmp/f at 10 ms (1 ms long), parsed under the filter /tmp/*,  *)
(* give exactly two Actions for /tmp/f: a READ from 2 to 5 and an          *)
(* OPEN_CLOSE from 0 to 11.                                                *)
(***************************************************************************)
C7_EndToEnd ==
    (paths = << TmpGlob >> /\ consumed = << E2EOpen, E2ERead, E2EClose >>) =>
      /\ status /= "raised"
      /\ syscalls =
           << [path |-> PathTmpF, start_time |-> Some(Ms(2)), end_time |-> Ms(5),
               action |-> "READ"],
              [path |-> PathTmpF, start_time |-> Some(Ms(0)), end_time |-> Ms(11),
               action |-> "OPEN_CLOSE"] >>

\* the three records were parsed and parse_strace returned
C7_Witness ==
    /\ paths = << TmpGlob >>
    /\ consumed = << E2EOpen, E2ERead, E2EClose >>
    /\ status = "returned"
    /\ Len(syscalls) = 2

(***************************************************************************)
(* C8.  In the first parsing run of a process the n-th distinct path, in   *)
(* the order the Actions first reference the paths, has height 10 + 30*n   *)
(* (40, 70, ..), and the lane table holds exactly the referenced paths: so *)
(* heights differ between paths, grow in first-seen order and stay as      *)
(* assigned whatever is appended later.                                    *)
(***************************************************************************)
ReferencedPaths == {syscalls[k].path : k \in 1..Len(syscalls)}

FirstReference(path) == SetMin({k \in 1..Len(syscalls) : syscalls[k].path = path})

\* the rank of a path among the referenced paths, in first-seen order
SeenRank(path) ==
    Cardinality({q \in ReferencedPaths : FirstReference(q) <= FirstReference(path)})

C8_LaneHeights ==
    invocation = 1 =>
      /\ DOMAIN path_to_height = ReferencedPaths
      /\ \A path \in ReferencedPaths : path_to_height[path] = 10 + 30 * SeenRank(path)

\* the first path is referenced again after a second path got its lane
C8_Witness ==
    /\ invocation = 1
    /\ Len(syscalls) >= 3
    /\ syscalls[1].path /= syscalls[2].path
    /\ syscalls[3].path = syscalls[1].path
    /\ path_to_height[syscalls[1].path] = 40
    /\ path_to_height[syscalls[2].path] = 70

(***************************************************************************)
(* C9.  Every invocation of parse_strace starts with an empty descriptor   *)
(* table and an empty lane table, so the first path an invocation          *)
(* references has height 40.  (The lane table is a class attribute and     *)
(* outlives the call.)                                                     *)
(***************************************************************************)
C9_FreshStatePerInvocation ==
    /\ (status = "running" /\ consumed = <<>>) =>
         (DOMAIN fds = {} /\ DOMAIN path_to_height = {})
    /\ Len(syscalls) >= 1 => path_to_height[syscalls[1].path] = 40

(***************************************************************************)
(* C10.  A close, read or write whose first argument is a bare descriptor  *)
(* ends the run with an error at that line: it is the last line taken,     *)
(* nothing is appended for it and parse_strace does not return.            *)
(***************************************************************************)
C10_UndecoratedIsFatal ==
    \A i \in 1..Len(consumed) :
        IsUndecorated(consumed[i]) =>
          /\ i = Len(consumed)
          /\ status = "raised"
          /\ EmittedBy(i) = <<>>
          /\ TableAfter(i) = TableBefore(i)

\* a bare close(1) after a trace that emitted an Action, under a filter
\* that is not the default
C10_Witness ==
    /\ status = "raised"
    /\ Len(consumed) >= 2
    /\ IsUndecorated(consumed[Len(consumed)])
    /\ consumed[Len(consumed)].syscall = "close"
    /\ consumed[Len(consumed)].args = CloseArgs(FdText(1))
    /\ Len(syscalls) >= 1
    /\ paths /= << <<"*">> >>

(***************************************************************************)
(* C11.  A line the grammar does not match is dropped without effect: the  *)
(* step that takes it leaves the run going and leaves the Action list, the *)
(* descriptor table and the lane table as they were, so the result is that *)
(* of the trace without the line.                                          *)
(***************************************************************************)
TakesUnmatched ==
    /\ Len(consumed') = Len(consumed) + 1
    /\ ~consumed'[Len(consumed')].matched

C11_UnmatchedLineDropped ==
    [][TakesUnmatched =>
         /\ status' = "running"
         /\ syscalls' = syscalls
         /\ fds' = fds
         /\ path_to_height' = path_to_height]_vars

\* a line of no grammar between an open and the close that ends its
\* interval, with the table and the lane table filled when it comes
C11_Witness ==
    /\ status = "returned"
    /\ Len(consumed) = 3
    /\ consumed[1].matched /\ consumed[1].syscall = "read"
    /\ consumed[2].matched /\ consumed[2].syscall = "openat"
    /\ ~consumed[3].matched
    /\ Len(syscalls) = 1
    /\ DOMAIN fds = {3}
    /\ DOMAIN path_to_height /= {}

(***************************************************************************)
(* C12.  A record whose return code is the unresolved marker ? is          *)
(* tolerated: the line does not end the run.  (int() raises ValueError on  *)
(* the marker and parse_strace does not catch it.)                         *)
(***************************************************************************)
C12_UnresolvedReturnTolerated ==
    \A i \in 1..Len(consumed) :
        (consumed[i].matched /\ consumed[i].return_code = <<"?">>) => ~RaisedAt(i)

(***************************************************************************)
(* C13.  Every record of the OPEN class, open(path, flags) as well as      *)
(* openat(dirfd, path, flags), stores under its return code an entry whose *)
(* path is the quote-stripped path of the file opened and whose start time *)
(* is the record's.  (The code takes the second argument for both forms:   *)
(* for open that is the flags.)                                            *)
(***************************************************************************)
IsOpen(line, fd, path) ==
    /\ line.matched
    /\ line.syscall = "open"
    /\ line.return_code = FdText(fd)
    /\ line.args = OpenArgs(path)

C13_OpenStoresTargetPath ==
    \A i \in 1..Len(consumed) : \A fd \in KnownFds : \A path \in KnownPaths :
        (IsOpen(consumed[i], fd, path) \/ IsOpenat(consumed[i], fd, path)) =>
          /\ fd \in DOMAIN TableAfter(i)
          /\ TableAfter(i)[fd].path = path
          /\ TableAfter(i)[fd].start_time = Some(StartOf(consumed[i]))

(***************************************************************************)
(* C14.  A close on a descriptor other than 1 and 2 that has no entry in   *)
(* the table does not end the run: when its decorated path passes the      *)
(* filter it appends one OPEN_CLOSE Action with that path, no start time   *)
(* and the end time start + duration of the close; when the descriptor has *)
(* an entry the Action has the entry's path and start time.                *)
(***************************************************************************)
ResolvedStart(i, fd) ==
    IF fd \in DOMAIN TableBefore(i) THEN TableBefore(i)[fd].start_time ELSE None

C14_CloseOfUntracked ==
    \A i \in 1..Len(consumed) : \A fd \in KnownFds \ {1, 2} : \A path \in KnownPaths :
        IsClose(consumed[i], fd, path) =>
          /\ ~RaisedAt(i)
          /\ EmittedBy(i) =
               IF PassesFilter(ResolvedPath(i, fd, path))
               THEN << [path |-> ResolvedPath(i, fd, path),
                        start_time |-> ResolvedStart(i, fd),
                        end_time |-> EndOf(consumed[i]),
                        action |-> "OPEN_CLOSE"] >>
               ELSE <<>>

\* a close of a descriptor never opened, then an open and a close of the
\* same descriptor for another path
C14_Witness ==
    /\ Len(consumed) >= 3
    /\ IsClose(consumed[1], 3, PathA)
    /\ IsOpenat(consumed[2], 3, PathB)
    /\ IsClose(consumed[3], 3, PathA)
    /\ Len(syscalls) >= 2
    /\ syscalls[1] = [path |-> PathA, start_time |-> None,
                      end_time |-> FloatAdd(Ms(8), Ms(1)), action |-> "OPEN_CLOSE"]
    /\ syscalls[2].path = PathB
    /\ syscalls[2].start_time = Some(StartOf(consumed[2]))

(***************************************************************************)
(* C15.  Every READ or WRITE Action is the interval of its own record:     *)
(* each read or write whose resolved path passes the filter appends        *)
(* exactly one Action, of kind READ for a read and WRITE for a write, that *)
(* starts at the record's start time and ends at its start time plus its   *)
(* duration, whatever the start time of the tracked open; so the number of *)
(* READ and WRITE Actions is the number of such records.                   *)
(***************************************************************************)
IsReadOrWrite(line, fd, path) == IsRead(line, fd, path) \/ IsWrite(line, fd, path)

\* the reads and writes taken so far whose resolved path passes the filter
PassingReadsWrites ==
    {i \in 1..Len(consumed) :
        \E fd \in KnownFds : \E path \in KnownPaths :
            /\ IsReadOrWrite(consumed[i], fd, path)
            /\ PassesFilter(ResolvedPath(i, fd, path))}

C15_ReadWriteOwnInterval ==
    /\ \A i \in 1..Len(consumed) : \A fd \in KnownFds : \A path \in KnownPaths :
         (IsReadOrWrite(consumed[i], fd, path)
            /\ PassesFilter(ResolvedPath(i, fd, path))) =>
           EmittedBy(i) =
             << [path |-> ResolvedPath(i, fd, path),
                 start_time |-> Some(StartOf(consumed[i])),
                 end_time |-> EndOf(consumed[i]),
                 action |-> IF consumed[i].syscall = "read" THEN "READ" ELSE "WRITE"] >>
    /\ Cardinality({k \in 1..Len(syscalls) : syscalls[k].action \in {"READ", "WRITE"}})
         = Cardinality(PassingReadsWrites)

\* two reads in a row on a descriptor opened earlier for another path
C15_Witness ==
    /\ Len(consumed) >= 3
    /\ IsOpenat(consumed[1], 3, PathB)
    /\ IsRead(consumed[2], 3, PathA)
    /\ IsRead(consumed[3], 3, PathA)
    /\ Len(syscalls) = 2
    /\ syscalls[1].path = PathB /\ syscalls[1].start_time = Some(Ms(9))
    /\ syscalls[2].path = PathB /\ syscalls[2].start_time = Some(Ms(10))

(***************************************************************************)
(* C16.  A read or a write never changes the descriptor table: the table   *)
(* after the record is the table before it, tracked descriptor or not.  So *)
(* a close that follows an open of its descriptor with nothing but reads   *)
(* and writes between them appends the OPEN_CLOSE Action that starts at    *)
(* that open.                                                              *)
(***************************************************************************)
IsAnyReadOrWrite(line) ==
    \E fd \in KnownFds : \E path \in KnownPaths : IsReadOrWrite(line, fd, path)

C16_ReadWriteLeaveTable ==
    /\ \A i \in 1..Len(consumed) :
         IsAnyReadOrWrite(consumed[i]) => TableAfter(i) = TableBefore(i)
    /\ \A fd \in KnownFds \ {1, 2} : \A path \in KnownPaths :
         \A i \in 1..Len(consumed) : \A j \in (i + 2)..Len(consumed) :
           (/\ IsOpenat(consumed[i], fd, path)
            /\ \A m \in (i + 1)..(j - 1) : IsAnyReadOrWrite(consumed[m])
            /\ IsCloseOf(consumed[j], fd)
            /\ PassesFilter(path)) =>
             EmittedBy(j) = << OpenCloseOf(path, consumed[i], consumed[j]) >>

\* an open, a read on the tracked descriptor, a write on an untracked one
\* and the close
C16_Witness ==
    /\ Len(consumed) = 4
    /\ IsOpenat(consumed[1], 3, PathA)
    /\ IsRead(consumed[2], 3, PathA)
    /\ IsWrite(consumed[3], 4, PathC)
    /\ IsCloseOf(consumed[4], 3)
    /\ TableAfter(3) = TableAfter(1)
    /\ DOMAIN TableAfter(3) = {3}
    /\ Len(syscalls) = 3
    /\ syscalls[3].action = "OPEN_CLOSE"
    /\ syscalls[3].start_time = Some(Ms(8))

(***************************************************************************)
(* C19.  A close on a descriptor other than 1 and 2 removes the entry of   *)
(* that descriptor, and no other, whether or not the entry's path passes   *)
(* the filter; so a read, write or close on the same descriptor that comes *)
(* next resolves to its own decorated path, and to no start time when it   *)
(* is a close.                                                             *)
(***************************************************************************)
C19_CloseRemovesEntry ==
    \A i \in 1..Len(consumed) : \A fd \in KnownFds \ {1, 2} : \A path \in KnownPaths :
        IsClose(consumed[i], fd, path) =>
          /\ TableAfter(i) =
               [k \in DOMAIN TableBefore(i) \ {fd} |-> TableBefore(i)[k]]
          /\ \A next \in KnownPaths :
               (/\ i < Len(consumed)
                /\ IsAccess(consumed[i + 1], fd, next)
                /\ PassesFilter(next)) =>
                 /\ Len(EmittedBy(i + 1)) = 1
                 /\ EmittedBy(i + 1)[1].path = next
                 /\ IsClose(consumed[i + 1], fd, next) =>
                      EmittedBy(i + 1)[1].start_time = None

\* the entry closed has a path the filter leaves out, and the read that
\* follows is on a path the filter lets pass
C19_Witness ==
    /\ paths = << PathA >>
    /\ Len(consumed) >= 3
    /\ IsOpenat(consumed[1], 3, PathB)
    /\ IsClose(consumed[2], 3, PathA)
    /\ EmittedBy(2) = <<>>
    /\ TableAfter(2) = <<>>
    /\ IsRead(consumed[3], 3, PathA)
    /\ Len(syscalls) = 1
    /\ syscalls[1].path = PathA

(***************************************************************************)
(* C20.  OPEN_CLOSE Actions come from close records only, at most one per  *)
(* close: their number is the number of closes on descriptors other than 1 *)
(* and 2 whose resolved path passes the filter, every OPEN_CLOSE Action is *)
(* appended by a close, an open appends nothing (nor does the open that    *)
(* overwrites an entry), and the return appends nothing for the entries    *)
(* left in the table.                                                      *)
(***************************************************************************)
PassingCloses ==
    {i \in 1..Len(consumed) :
        \E fd \in KnownFds \ {1, 2} : \E path \in KnownPaths :
            /\ IsClose(consumed[i], fd, path)
            /\ PassesFilter(ResolvedPath(i, fd, path))}

OpenCloseActions == {k \in 1..Len(syscalls) : syscalls[k].action = "OPEN_CLOSE"}

C20_OpenCloseOnlyByClose ==
    /\ Cardinality(OpenCloseActions) = Cardinality(PassingCloses)
    /\ \A i \in 1..Len(consumed) :
         /\ Len(EmittedBy(i)) <= 1
         /\ (\E k \in 1..Len(EmittedBy(i)) : EmittedBy(i)[k].action = "OPEN_CLOSE")
              => i \in PassingCloses
         /\ (consumed[i].matched /\ consumed[i].syscall \in {"open", "openat"})
              => EmittedBy(i) = <<>>
    /\ Len(syscalls) = IF consumed = <<>> THEN 0 ELSE trail[Len(trail)].emitted

\* an open overwritten by a second open, the close of the second, and a
\* third open whose entry is in the table when parse_strace returns
C20_Witness ==
    /\ status = "returned"
    /\ Len(consumed) = 4
    /\ IsOpenat(consumed[1], 3, PathA)
    /\ IsOpenat(consumed[2], 3, PathB)
    /\ IsCloseOf(consumed[3], 3)
    /\ IsOpenat(consumed[4], 3, PathA)
    /\ DOMAIN fds = {3}
    /\ Len(syscalls) = 1
    /\ syscalls[1].action = "OPEN_CLOSE"
    /\ syscalls[1].path = PathB

(***************************************************************************)
(* C17.  generate_svg never fails on a list that holds an OPEN_CLOSE       *)
(* Action with no start time: with or without keep_timestamps, and when no *)
(* Action of the list has a start time, it ends with the drawing printed   *)
(* and every start time a number.  (min() of no start time raises          *)
(* ValueError; with keep_timestamps nothing is substituted and the         *)
(* duration of the Action raises TypeError.)                               *)
(***************************************************************************)
\* a close of an untracked descriptor whose path passes the filter was
\* taken: the list handed to generate_svg holds an Action with no start
ClosedUntracked ==
    \E i \in 1..Len(consumed) : \E fd \in KnownFds \ {1, 2} : \E path \in KnownPaths :
        /\ IsClose(consumed[i], fd, path)
        /\ fd \notin DOMAIN TableBefore(i)
        /\ PassesFilter(path)

C17_RendererSubstitutesSentinel ==
    (ClosedUntracked /\ status \in {"drawn", "raised_svg"}) =>
      /\ status = "drawn"
      /\ \A k \in 1..Len(syscalls) : syscalls[k].start_time /= None

(***************************************************************************)
(* C18.  The three trace sources exclude each other: when more than one of *)
(* --strace, --pid and --command is given, main prints a message and       *)
(* returns, and parse_strace is never called.  (With --strace given, main  *)
(* reads the file and never looks at the other two.)                       *)
(***************************************************************************)
SourcesGiven ==
    (IF TruthyText(options.strace) THEN {"strace"} ELSE {})
      \cup (IF TruthyNumber(options.pid) THEN {"pid"} ELSE {})
      \cup (IF TruthyText(options.command) THEN {"command"} ELSE {})

C18_SourcesMutuallyExclusive ==
    Cardinality(SourcesGiven) > 1 =>
      /\ invocation = 0
      /\ status \in {"main", "exited"}
      /\ status = "exited" => Len(outputs) = 1 /\ outputs[1].kind = "print"

====
